---- MODULE Spec2Model ----
(***************************************************************************)
(* Model of billing-app/notify_billing/app.py: the AWS billing notifier.   *)
(*                                                                         *)
(* Text is modelled as a sequence of tokens (strings); numbers and dates   *)
(* are formatted into digit tokens and parsed back from them.  Money is    *)
(* kept in integers: a raw backend amount in thousandths of a dollar       *)
(* ("0.004" is 4), a rounded amount in cents.                              *)
(***************************************************************************)
EXTENDS Integers, Sequences, FiniteSets, TLC

\* ------------------------------------------------------------------ bounds
FirstYear == 2023
LastYear == 2025
MaxServices == 2

\* ------------------------------------------------------- calendar helpers
IsLeap(y) == (y % 4 = 0) /\ ((y % 100 # 0) \/ (y % 400 = 0))

DaysInMonth(y, m) ==
    IF m = 2 THEN (IF IsLeap(y) THEN 29 ELSE 28)
    ELSE IF m \in {4, 6, 9, 11} THEN 30 ELSE 31

RECURSIVE DaysBeforeMonth(_, _)
DaysBeforeMonth(y, m) ==
    IF m = 1 THEN 0 ELSE DaysBeforeMonth(y, m - 1) + DaysInMonth(y, m - 1)

DaysBeforeYear(y) ==
    (y - 1) * 365 + ((y - 1) \div 4) - ((y - 1) \div 100) + ((y - 1) \div 400)

MkDate(y, m, d) == [year |-> y, month |-> m, day |-> d]

\* datetime.toordinal(): day number, 0001-01-01 is day 1
ToOrdinal(dt) ==
    DaysBeforeYear(dt.year) + DaysBeforeMonth(dt.year, dt.month) + dt.day

\* datetime.fromordinal(): the proleptic Gregorian date of a day number
FromOrdinal(ord) ==
    LET n0   == ord - 1
        n400 == n0 \div 146097
        r400 == n0 % 146097
        n100 == r400 \div 36524
        r100 == r400 % 36524
        n4   == r100 \div 1461
        r4   == r100 % 1461
        n1   == r4 \div 365
        n    == r4 % 365
        year == n400 * 400 + 1 + n100 * 100 + n4 * 4 + n1
        leap == (n1 = 3) /\ ((n4 # 24) \/ (n100 = 3))
        m0   == (n + 50) \div 32
        p0   == DaysBeforeMonth(IF leap THEN 4 ELSE 1, m0)
        month == IF p0 > n THEN m0 - 1 ELSE m0
        prec == DaysBeforeMonth(IF leap THEN 4 ELSE 1, month)
    IN  IF n1 = 4 \/ n100 = 4
        THEN MkDate(year - 1, 12, 31)
        ELSE MkDate(year, month, n - prec + 1)

\* dt + timedelta(days=k)
AddDays(dt, k) == FromOrdinal(ToOrdinal(dt) + k)

\* ------------------------------------------------------------ text helpers
Digit(n) ==
    CASE n = 0 -> "0" [] n = 1 -> "1" [] n = 2 -> "2" [] n = 3 -> "3"
      [] n = 4 -> "4" [] n = 5 -> "5" [] n = 6 -> "6" [] n = 7 -> "7"
      [] n = 8 -> "8" [] n = 9 -> "9"

Digits == {"0", "1", "2", "3", "4", "5", "6", "7", "8", "9"}

DigitVal(c) == CHOOSE n \in 0..9 : Digit(n) = c

\* str(n) / f"{n}" of a non-negative integer
RECURSIVE IntStr(_)
IntStr(n) == IF n < 10 THEN <<Digit(n)>> ELSE IntStr(n \div 10) \o <<Digit(n % 10)>>

\* int(s) of a digit string
RECURSIVE IntVal(_)
IntVal(s) ==
    IF s = <<>> THEN 0
    ELSE IntVal(SubSeq(s, 1, Len(s) - 1)) * 10 + DigitVal(s[Len(s)])

Pad2(n) == <<Digit((n \div 10) % 10), Digit(n % 10)>>

Pad4(n) == <<Digit((n \div 1000) % 10), Digit((n \div 100) % 10)>> \o Pad2(n % 100)

\* strftime("%Y-%m-%d")
StrftimeYmd(dt) == Pad4(dt.year) \o <<"-">> \o Pad2(dt.month) \o <<"-">> \o Pad2(dt.day)

\* strftime("%m/%d")
StrftimeMd(dt) == Pad2(dt.month) \o <<"/">> \o Pad2(dt.day)

\* datetime.strptime(s, "%Y-%m-%d") on a well-formed date string
StrptimeYmd(s) ==
    MkDate(IntVal(SubSeq(s, 1, 4)), IntVal(SubSeq(s, 6, 7)), IntVal(SubSeq(s, 9, 10)))

\* f"{x:.2f}" of an amount held in cents
Fmt2f(cents) == IntStr(cents \div 100) \o <<".">> \o Pad2(cents % 100)

Range(s) == {s[i] : i \in 1..Len(s)}

\* "\n".join(lines)
RECURSIVE Join(_)
Join(lines) ==
    IF lines = <<>> THEN <<>>
    ELSE IF Len(lines) = 1 THEN lines[1]
    ELSE lines[1] \o <<"\n">> \o Join(Tail(lines))

\* ------------------------------------------------- literal text of the report
\* The Japanese literals of the f-strings, named in ASCII.
WaveDash == "~"                          \* U+FF5E between the two dates
YenSign == "JPY"                         \* U+FFE5 before a converted figure
Bullet == "*"                            \* U+30FB opening a body line
BilledIs == " no seikyuugaku wa, "       \* title, after the dates
UsdDesu == " USD desu."                  \* title tail without conversion
UsdParenDesu == " USD) desu."            \* title tail with conversion
FooterHead == "kawase rate: "            \* footer, before the rate
FooterMid == " yen/1 dollar ("           \* footer, after the rate
FooterTail == " jiten)"                  \* footer, after the date

\* ------------------------------------------------------------ input domains
\* dt_now: the invocation dates the handler runs are explored on
HandlerDates ==
    {MkDate(2024, 1, 1), MkDate(2024, 3, 1), MkDate(2024, 3, 16), MkDate(2023, 12, 31)}

\* every calendar date of the years FirstYear..LastYear
AllDates ==
    {dt \in {MkDate(y, m, d) : y \in FirstYear..LastYear, m \in 1..12, d \in 1..31} :
        dt.day <= DaysInMonth(dt.year, dt.month)}

\* raw "Amount" strings of the backend, in thousandths of a dollar
TotalAmounts == {10, 70, 123450}
ServiceAmounts == {0, 4, 5, 10}
ServiceNames == {"EC2", "S3", "Tax"}

\* values math.ceil(df.iloc[0][3]) takes when the quote is there
Rates == {100, 150}

Items == [service_name : ServiceNames, billing : ServiceAmounts]

\* grouped results: one entry per distinct service, in backend order
ServiceLists ==
    {l \in UNION {[1..n -> Items] : n \in 0..MaxServices} :
        \A i, j \in 1..Len(l) : i # j => l[i].service_name # l[j].service_name}

\* an "Amount" string that is not a number
NotANumber == -1

\* grouped results in which one Amount is not a number
GarbledLists ==
    UNION {{[l EXCEPT ![k].billing = NotANumber] : k \in 1..Len(l)} : l \in ServiceLists}

NoneValue == [none |-> TRUE]
IsNone(v) == v.none

Unbound == <<"<unbound>">>

NoExc == [type |-> "none", line |-> 0]

VARIABLES
    pc,                \* position of the invocation (line of lambda_handler / callee)
    dt_now,            \* module-level datetime.now(JST), date part
    date_range,        \* last (start_date, end_date) of get_total_cost_date_range
    total_outcome,     \* how the total-cost query ended
    service_outcome,   \* how the per-service query ended
    rate_outcome,      \* how the exchange-rate query ended
    total_billing,     \* lambda_handler: total_billing (None or dict)
    service_billings,  \* lambda_handler: service_billings (None or list)
    total,             \* get_message: total, in cents
    exchange_rate,     \* get_message: exchange_rate
    title,             \* lambda_handler: title
    detail,            \* lambda_handler: detail
    footer,            \* lambda_handler: footer
    calls,             \* external calls issued so far, in order
    payload,           \* JSON bodies handed to requests.post
    post_result,       \* how post_discord ended
    exc                \* exception that left lambda_handler

vars == <<pc, dt_now, date_range, total_outcome, service_outcome, rate_outcome,
          total_billing, service_billings, total, exchange_rate, title, detail,
          footer, calls, payload, post_result, exc>>

\* --------------------------------------------------------- period resolution
get_this_month_first_day(now) == StrftimeYmd([now EXCEPT !.day = 1])

\* a slip: December reached without stepping the year back
get_last_month_first_day_same_year(now) ==
    LET last_month == now.month - 1
    IN  StrftimeYmd(MkDate(now.year, IF last_month = 0 THEN 12 ELSE last_month, 1))

get_last_month_first_day(now) ==
    LET last_month == now.month - 1
        last_month_year == now.year
    IN  IF last_month = 0
        THEN StrftimeYmd(MkDate(last_month_year - 1, 12, 1))
        ELSE StrftimeYmd(MkDate(last_month_year, last_month, 1))

get_total_cost_date_range(now) ==
    LET end_date == StrftimeYmd(AddDays(now, -1))
        start_date == IF now.day = 1
                      THEN get_last_month_first_day(now)
                      ELSE get_this_month_first_day(now)
    IN  <<start_date, end_date>>

\* ------------------------------------------------------------- cost queries
\* how a get_cost_and_usage call can end: a well-formed response, the call
\* raising, a response lacking a field that is read (KeyError, IndexError),
\* a response with every field read but an Amount that is not a number
CostOutcomes == {"ok", "raise", "malformed", "garbled"}

\* get_total_billing: the dict built from the response, None when the call
\* or the extraction raised (the except clause only logs)
get_total_billing(outcome, range, amount) ==
    IF outcome \in {"ok", "garbled"}
    THEN [none |-> FALSE, start |-> range[1], end |-> range[2], billing |-> amount]
    ELSE NoneValue

\* a slip: the except clause handing back an empty list
get_service_billings_empty(outcome, groups) ==
    [none |-> FALSE, items |-> IF outcome \in {"ok", "garbled"} THEN groups ELSE <<>>]

\* get_service_billings: the list built from the groups, None on any exception
get_service_billings(outcome, groups) ==
    IF outcome \in {"ok", "garbled"} THEN [none |-> FALSE, items |-> groups]
    ELSE NoneValue

\* -------------------------------------------------------------- arithmetic
\* float(s) raises ValueError on a string that is not a number
FloatRaises(amount) == amount = NotANumber

\* decimal ties whose float lies just above the tie: float("0.005") is
\* 0.005000000000000000104...
TieAbove == {5}

\* a slip: every amount rounded up to the next cent
Round2Up(mills) == {(mills + 9) \div 10}

\* round(float(s), 2): the nearest cent.  On a decimal tie the binary value of
\* the float decides: up for the ties known to lie above, either neighbour
\* for a tie not tabulated.
Round2(mills) ==
    IF mills % 10 # 5 THEN {(mills + 5) \div 10}
    ELSE IF mills \in TieAbove THEN {mills \div 10 + 1}
    ELSE {mills \div 10, mills \div 10 + 1}

\* <<cents, rate>> whose float product is the whole exact product:
\* 0.01 * 100 is 1.0, 123.45 * 100 is 12345.0
FloatExact == {<<1, 100>>, <<12345, 100>>}

\* <<cents, rate>> whose float product lies just above the whole exact
\* product: 0.07 * 100 is 7.000000000000001
FloatAbove == {<<7, 100>>}

\* a slip: the product truncated instead of rounded up
CeilYenFloor(cents, rate) == {(cents * rate) \div 100}

\* math.ceil(amount * exchange_rate) on floats.  A product that is not whole
\* is rounded up to the next yen.  A whole product of a binary fraction
\* (.00 .25 .50 .75) is exact; of another amount the float product is the
\* whole number or just above it: as tabulated, or either when not tabulated.
CeilYen(cents, rate) ==
    IF (cents * rate) % 100 # 0 THEN {(cents * rate) \div 100 + 1}
    ELSE IF cents % 25 = 0 \/ <<cents, rate>> \in FloatExact THEN {(cents * rate) \div 100}
    ELSE IF <<cents, rate>> \in FloatAbove THEN {(cents * rate) \div 100 + 1}
    ELSE {(cents * rate) \div 100, (cents * rate) \div 100 + 1}

\* ---------------------------------------------------------------- composer
\* total_billing["start"] on None raises TypeError
SubscriptRaises(tb) == IsNone(tb)

\* "for item in service_billings" on None raises TypeError
IterRaises(sb) == IsNone(sb)

TitleText(start, end_yesterday, tot, rate, total_yen) ==
    IF rate > 0
    THEN start \o <<WaveDash>> \o end_yesterday \o <<BilledIs, YenSign>>
           \o IntStr(total_yen) \o <<" (">> \o Fmt2f(tot) \o <<UsdParenDesu>>
    ELSE start \o <<WaveDash>> \o end_yesterday \o <<BilledIs>>
           \o Fmt2f(tot) \o <<UsdDesu>>

LineText(service_name, billing, rate, billing_yen) ==
    IF rate > 0
    THEN <<Bullet, service_name, ": ", YenSign>> \o IntStr(billing_yen)
           \o <<" (">> \o Fmt2f(billing) \o <<" USD)">>
    ELSE <<Bullet, service_name, ": ">> \o Fmt2f(billing) \o <<" USD">>

\* the lists "details" can end as, one per way the float arithmetic falls
RECURSIVE DetailsSet(_, _)
DetailsSet(items, rate) ==
    IF items = <<>> THEN {<<>>}
    ELSE LET item == Head(items)
             rest == DetailsSet(Tail(items), rate)
         IN  UNION {
               IF billing = 0 THEN rest
               ELSE {<<LineText(item.service_name, billing, rate, y)>> \o r :
                        y \in (IF rate > 0 THEN CeilYen(billing, rate) ELSE {0}),
                        r \in rest}
               : billing \in Round2(item.billing)}

\* footer is assigned under "if exchange_rate > 0" only
FooterText(rate, end_yesterday) ==
    IF rate > 0
    THEN <<FooterHead>> \o IntStr(rate) \o <<FooterMid>> \o end_yesterday \o <<FooterTail>>
    ELSE Unbound

StartMd(tb) == StrftimeMd(StrptimeYmd(tb.start))

EndYesterdayMd(tb) ==
    LET end_today == StrptimeYmd(tb.end)
    IN  StrftimeMd(end_today)

\* ------------------------------------------------------------ rate fetcher
RateOutcomes == {"ok", "query_raise", "empty_frame", "nan"}

\* a slip: no except clause around the query
get_exchange_rate_raises(outcome, quote) ==
    IF outcome = "ok" THEN [rate |-> quote, exc |-> NoExc]
    ELSE [rate |-> 0, exc |-> [type |-> "Exception", line |-> 35]]

\* get_exchange_rate: the ceiling of the quote, 0 from the except clause
get_exchange_rate(outcome, quote) ==
    IF outcome = "ok" THEN [rate |-> quote, exc |-> NoExc]
    ELSE [rate |-> 0, exc |-> NoExc]

\* ----------------------------------------------------------------- notifier
PostOutcomes == {"ok", "raise"}

\* the JSON body of the webhook call
DiscordBody(t, msg, f) ==
    IF f # <<>>
    THEN [content |-> "@everyone\n",
          embeds |-> <<[title |-> t, description |-> msg, footer |-> [text |-> f]]>>]
    ELSE [content |-> "@everyone\n",
          embeds |-> <<[title |-> t, description |-> msg]>>]

\* a slip: requests.post outside the try
PostDiscordExcPropagates(outcome) ==
    IF outcome = "raise" THEN [type |-> "Exception", line |-> 70] ELSE NoExc

\* the exception leaving post_discord when requests.post ended as outcome
PostDiscordExc(outcome) == NoExc

\* ------------------------------------------------------------------ states
Blank ==
    /\ date_range = <<<<>>, <<>>>>
    /\ total_outcome = "none"
    /\ service_outcome = "none"
    /\ rate_outcome = "none"
    /\ total_billing = NoneValue
    /\ service_billings = NoneValue
    /\ total = 0
    /\ exchange_rate = 0
    /\ calls = <<>>
    /\ payload = <<>>
    /\ post_result = "none"
    /\ exc = NoExc

\* an invocation of lambda_handler about to start
Init ==
    /\ pc = "L261"
    /\ dt_now \in HandlerDates
    /\ title = Unbound
    /\ detail = Unbound
    /\ footer = Unbound
    /\ Blank

\* ----------------------------------------------------------------- actions
\* lambda_handler line 261: total_billing = get_total_billing(ce_client)
GetTotalBilling ==
    /\ pc = "L261"
    /\ \E outcome \in CostOutcomes :
         \E amount \in (IF outcome = "ok" THEN TotalAmounts
                        ELSE IF outcome = "garbled" THEN {NotANumber} ELSE {0}) :
           LET range == get_total_cost_date_range(dt_now)
           IN  /\ date_range' = range
               /\ total_outcome' = outcome
               /\ total_billing' = get_total_billing(outcome, range, amount)
    /\ calls' = Append(calls, "ce.get_cost_and_usage")
    /\ pc' = "L262"
    /\ UNCHANGED <<dt_now, service_outcome, rate_outcome, service_billings, total,
                   exchange_rate, title, detail, footer, payload, post_result, exc>>

\* lambda_handler line 262: service_billings = get_service_billings(ce_client)
GetServiceBillings ==
    /\ pc = "L262"
    /\ \E outcome \in CostOutcomes :
         \E groups \in (IF outcome = "ok" THEN ServiceLists
                        ELSE IF outcome = "garbled" THEN GarbledLists ELSE {<<>>}) :
           /\ date_range' = get_total_cost_date_range(dt_now)
           /\ service_outcome' = outcome
           /\ service_billings' = get_service_billings(outcome, groups)
    /\ calls' = Append(calls, "ce.get_cost_and_usage(GroupBy=SERVICE)")
    /\ pc' = "L263"
    /\ UNCHANGED <<dt_now, total_outcome, rate_outcome, total_billing, total,
                   exchange_rate, title, detail, footer, payload, post_result, exc>>

\* get_message lines 169-174: the dates and the rounded total
GetMessageHead ==
    /\ pc = "L263"
    /\ IF SubscriptRaises(total_billing)
       THEN /\ exc' = [type |-> "TypeError", line |-> 169]
            /\ pc' = "raised"
            /\ UNCHANGED total
       ELSE IF FloatRaises(total_billing.billing)
       THEN /\ exc' = [type |-> "ValueError", line |-> 174]
            /\ pc' = "raised"
            /\ UNCHANGED total
       ELSE /\ total' \in Round2(total_billing.billing)
            /\ pc' = "L175"
            /\ UNCHANGED exc
    /\ UNCHANGED <<dt_now, date_range, total_outcome, service_outcome, rate_outcome,
                   total_billing, service_billings, exchange_rate, title, detail,
                   footer, calls, payload, post_result>>

\* get_message line 175: exchange_rate = get_exchange_rate()
GetExchangeRate ==
    /\ pc = "L175"
    /\ \E outcome \in RateOutcomes :
         \E quote \in (IF outcome = "ok" THEN Rates ELSE {0}) :
           LET res == get_exchange_rate(outcome, quote)
           IN  /\ rate_outcome' = outcome
               /\ exchange_rate' = res.rate
               /\ exc' = res.exc
               /\ pc' = IF res.exc = NoExc THEN "L178" ELSE "raised"
    /\ calls' = Append(calls, "pdr.get_data_yahoo")
    /\ UNCHANGED <<dt_now, date_range, total_outcome, service_outcome, total_billing,
                   service_billings, total, title, detail, footer, payload,
                   post_result>>

\* get_message lines 177-205 and the unpacking at lambda_handler line 263
GetMessageBody ==
    /\ pc = "L178"
    /\ LET start == StartMd(total_billing)
           end_yesterday == EndYesterdayMd(total_billing)
           foot == FooterText(exchange_rate, end_yesterday)
       IN  IF IterRaises(service_billings)
           THEN /\ exc' = [type |-> "TypeError", line |-> 188]
                /\ pc' = "raised"
                /\ UNCHANGED <<title, detail, footer>>
           ELSE IF \E i \in 1..Len(service_billings.items) :
                      FloatRaises(service_billings.items[i].billing)
           THEN /\ exc' = [type |-> "ValueError", line |-> 190]
                /\ pc' = "raised"
                /\ UNCHANGED <<title, detail, footer>>
           ELSE IF foot = Unbound
           THEN /\ exc' = [type |-> "UnboundLocalError", line |-> 205]
                /\ pc' = "raised"
                /\ UNCHANGED <<title, detail, footer>>
           ELSE /\ \E total_yen \in (IF exchange_rate > 0
                                     THEN CeilYen(total, exchange_rate) ELSE {0}) :
                      title' = TitleText(start, end_yesterday, total,
                                         exchange_rate, total_yen)
                /\ \E details \in DetailsSet(service_billings.items, exchange_rate) :
                      detail' = Join(details)
                /\ footer' = foot
                /\ pc' = "L264"
                /\ UNCHANGED exc
    /\ UNCHANGED <<dt_now, date_range, total_outcome, service_outcome, rate_outcome,
                   total_billing, service_billings, total, exchange_rate, calls,
                   payload, post_result>>

\* lambda_handler line 264: post_discord(title, detail, footer)
PostDiscord ==
    /\ pc = "L264"
    /\ \E url_set \in BOOLEAN :
         IF ~url_set
         THEN /\ post_result' = "no_url"
              /\ pc' = "done"
              /\ UNCHANGED <<calls, payload, exc>>
         ELSE \E outcome \in PostOutcomes :
                /\ payload' = Append(payload, DiscordBody(title, detail, footer))
                /\ calls' = Append(calls, "requests.post")
                /\ post_result' = outcome
                /\ exc' = PostDiscordExc(outcome)
                /\ pc' = IF PostDiscordExc(outcome) = NoExc THEN "done" ELSE "raised"
    /\ UNCHANGED <<dt_now, date_range, total_outcome, service_outcome, rate_outcome,
                   total_billing, service_billings, total, exchange_rate, title,
                   detail, footer>>

Next ==
    \/ GetTotalBilling
    \/ GetServiceBillings
    \/ GetMessageHead
    \/ GetExchangeRate
    \/ GetMessageBody
    \/ PostDiscord

Spec == Init /\ [][Next]_vars

\* ------------------------------------------- the period resolver on its own
InitPeriod ==
    /\ pc = "R220"
    /\ dt_now \in AllDates
    /\ title = Unbound
    /\ detail = Unbound
    /\ footer = Unbound
    /\ Blank

\* get_total_cost_date_range()
GetTotalCostDateRange ==
    /\ pc = "R220"
    /\ date_range' = get_total_cost_date_range(dt_now)
    /\ pc' = "R227"
    /\ UNCHANGED <<dt_now, total_outcome, service_outcome, rate_outcome,
                   total_billing, service_billings, total, exchange_rate, title,
                   detail, footer, calls, payload, post_result, exc>>

NextPeriod == GetTotalCostDateRange

SpecPeriod == InitPeriod /\ [][NextPeriod]_vars

\* ------------------------------------------------- the notifier on its own
NotifyMd == {StrftimeMd(MkDate(2024, 3, 1)), StrftimeMd(MkDate(2024, 3, 15))}

NotifyTitles ==
    {TitleText(StrftimeMd(MkDate(2024, 3, 1)), e, t, r, t * r) :
        e \in NotifyMd, t \in {1, 12345}, r \in {0} \cup Rates}

NotifyDetails ==
    UNION {{Join(d) : d \in DetailsSet(l, r)} :
             l \in {g \in ServiceLists : Len(g) <= 1}, r \in {0} \cup Rates}

NotifyFooters ==
    {<<>>} \cup {FooterText(r, e) : r \in Rates, e \in NotifyMd}

\* post_discord called with any report
InitNotify ==
    /\ pc = "L264"
    /\ dt_now \in {MkDate(2024, 3, 16)}
    /\ title \in NotifyTitles
    /\ detail \in NotifyDetails
    /\ footer \in NotifyFooters
    /\ Blank

NextNotify == PostDiscord

SpecNotify == InitNotify /\ [][NextNotify]_vars

\* ===================================================== properties checked
\* helpers of the properties: reading figures back out of the composed text
IndexOf(text, tok) ==
    CHOOSE i \in 1..Len(text) : text[i] = tok /\ \A j \in 1..(i - 1) : text[j] # tok

Between(text, a, b) == SubSeq(text, IndexOf(text, a) + 1, IndexOf(text, b) - 1)

RECURSIVE SplitLines(_)
SplitLines(text) ==
    IF text = <<>> THEN <<>>
    ELSE IF "\n" \notin Range(text) THEN <<text>>
    ELSE LET k == IndexOf(text, "\n")
         IN  <<SubSeq(text, 1, k - 1)>> \o SplitLines(SubSeq(text, k + 1, Len(text)))

CentsOf(fig) ==
    LET dot == IndexOf(fig, ".")
    IN  IntVal(SubSeq(fig, 1, dot - 1)) * 100 + IntVal(SubSeq(fig, dot + 1, Len(fig)))

DayBefore(d) ==
    IF d.day > 1 THEN MkDate(d.year, d.month, d.day - 1)
    ELSE IF d.month > 1 THEN MkDate(d.year, d.month - 1, DaysInMonth(d.year, d.month - 1))
    ELSE MkDate(d.year - 1, 12, 31)

DateLeq(a, b) ==
    \/ a.year < b.year
    \/ a.year = b.year /\ a.month < b.month
    \/ a.year = b.year /\ a.month = b.month /\ a.day <= b.day

Count(tok, s) == Cardinality({i \in 1..Len(s) : s[i] = tok})

Composed == pc \in {"L264", "done"}
CostFailed(o) == o \in {"raise", "malformed", "garbled"}

\* the figures a text shows: <<yen figure, usd figure>> of the title and of a line
TitleYenFig == Between(title, YenSign, " (")
TitleUsdFig == Between(title, " (", UsdParenDesu)
LineYenFig(l) == Between(l, YenSign, " (")
LineUsdFig(l) == Between(l, " (", " USD)")

\* C1: whenever the exchange rate obtained during composition is 0, get_message
\* returns normally with a title and body showing only USD amounts (no yen
\* figure) and a footer equal to the empty string, for every total and list.
C1_DegradedMode ==
    (pc \in {"L264", "done", "raised"} /\ rate_outcome # "none"
       /\ exchange_rate = 0 /\ service_outcome = "ok")
    => /\ Composed
       /\ footer = <<>>
       /\ YenSign \notin Range(title) \cup Range(detail)

\* C2: when the total-cost query or the per-service query fails, post_discord
\* is never invoked and nothing is posted.
C2_AbortOnCostFailure ==
    (CostFailed(total_outcome) \/ CostFailed(service_outcome))
    => /\ post_result = "none"
       /\ "requests.post" \notin Range(calls)
       /\ payload = <<>>
       /\ pc \notin {"L264", "done"}

C2_Witness ==
    /\ pc = "raised"
    /\ total_outcome = "ok"
    /\ service_outcome = "raise"
    /\ exc = [type |-> "TypeError", line |-> 188]

\* C3: when both cost queries succeed the run reaches the notify step:
\* post_discord is invoked exactly once, whether the rate was fetched or not.
C3_NotifyWhenCostsSucceed ==
    (pc \in {"done", "raised"} /\ total_outcome = "ok" /\ service_outcome = "ok")
    => /\ pc = "done"
       /\ post_result # "none"

\* C4: for today = d, the range ends at d - 1 day and starts at the first day
\* of d's month (d.day # 1) or of the month before (d.day = 1, January rolling
\* to December of the previous year); start <= end.
C4_PeriodResolution ==
    pc = "R227" =>
      LET first == IF dt_now.day # 1 THEN MkDate(dt_now.year, dt_now.month, 1)
                   ELSE IF dt_now.month = 1 THEN MkDate(dt_now.year - 1, 12, 1)
                   ELSE MkDate(dt_now.year, dt_now.month - 1, 1)
      IN  /\ date_range[2] = StrftimeYmd(DayBefore(dt_now))
          /\ date_range[1] = StrftimeYmd(first)
          /\ DateLeq(StrptimeYmd(date_range[1]), StrptimeYmd(date_range[2]))
          /\ (dt_now = MkDate(2024, 1, 1)) =>
                date_range = << <<"2", "0", "2", "3", "-", "1", "2", "-", "0", "1">>,
                                <<"2", "0", "2", "3", "-", "1", "2", "-", "3", "1">> >>

C4_Witness ==
    /\ pc = "R227"
    /\ dt_now = MkDate(2024, 1, 1)
    /\ date_range[1] = <<"2", "0", "2", "3", "-", "1", "2", "-", "0", "1">>
    /\ date_range[2] = <<"2", "0", "2", "3", "-", "1", "2", "-", "3", "1">>

\* C5 as stated: a service appears in the composed body exactly when its raw
\* amount is strictly greater than 0 (amounts are rounded up, so 0.004 is
\* shown).
C5_ZeroSuppression ==
    Composed =>
      \A i \in 1..Len(service_billings.items) :
         (service_billings.items[i].service_name \in Range(detail))
           <=> (service_billings.items[i].billing > 0)

\* the body line of a service
LineOf(name) ==
    LET ls == SplitLines(detail)
    IN  ls[CHOOSE i \in 1..Len(ls) : ls[i][2] = name]

\* C5 amended: each service amount is rounded to the nearest cent before the
\* zero check, so a service appears in the body exactly when its amount is
\* at least 0.005: 0.004 is suppressed, 0.005 is shown as 0.01.
C5_ZeroSuppressionNearest ==
    Composed =>
      \A i \in 1..Len(service_billings.items) :
         LET item == service_billings.items[i]
         IN  /\ (item.service_name \in Range(detail)) <=> (item.billing >= 5)
             /\ (item.service_name \in Range(detail)) =>
                  LET shown == CentsOf(LineUsdFig(LineOf(item.service_name)))
                  IN  /\ shown * 10 - item.billing <= 5
                      /\ item.billing - shown * 10 <= 5

C5_Witness ==
    /\ Composed
    /\ \E i, j \in 1..Len(service_billings.items) :
          /\ service_billings.items[i].billing = 4
          /\ service_billings.items[i].service_name \notin Range(detail)
          /\ service_billings.items[j].billing = 5
          /\ LineUsdFig(LineOf(service_billings.items[j].service_name))
                = <<"0", ".", "0", "1">>

\* C6: the title shows month/day of total.start and month/day of the day
\* before total.end.
C6_TitleWindow ==
    Composed =>
      /\ SubSeq(title, 1, 5) = StrftimeMd(StrptimeYmd(total_billing.start))
      /\ title[6] = WaveDash
      /\ SubSeq(title, 7, 11) = StrftimeMd(DayBefore(StrptimeYmd(total_billing.end)))

\* C7 as stated: with rate > 0 the converted figure in the title and in each
\* body line is the 2-decimal amount times the rate, shown with 2 decimals.
C7_ConvertedTwoDecimals ==
    (Composed /\ exchange_rate > 0) =>
      /\ TitleYenFig = Fmt2f(CentsOf(TitleUsdFig) * exchange_rate)
      /\ \A i \in 1..Len(SplitLines(detail)) :
            LET l == SplitLines(detail)[i]
            IN  LineYenFig(l) = Fmt2f(CentsOf(LineUsdFig(l)) * exchange_rate)

\* a whole yen value y shown for an amount of c cents at rate r: not below
\* c*r/100, less than one above it, or exactly one above a whole product of
\* an amount that is not a binary fraction (float error before math.ceil)
YenShownFor(fig, c, r) ==
    /\ Range(fig) \subseteq Digits
    /\ fig # <<>>
    /\ LET y == IntVal(fig)
       IN  /\ y * 100 >= c * r
           /\ \/ y * 100 < c * r + 100
              \/ y * 100 = c * r + 100 /\ c % 25 # 0

\* C7 amended: with rate > 0 the converted figure in the title and in each
\* body line is a whole number of yen, the ceiling of the 2-decimal amount
\* times the rate (one more at most, only through float error on a whole
\* product).
C7_ConvertedWholeYen ==
    (Composed /\ exchange_rate > 0) =>
      /\ TitleUsdFig = Fmt2f(total)
      /\ YenShownFor(TitleYenFig, total, exchange_rate)
      /\ \A i \in 1..Len(SplitLines(detail)) :
            LET l == SplitLines(detail)[i]
            IN  YenShownFor(LineYenFig(l), CentsOf(LineUsdFig(l)), exchange_rate)

C7_Witness ==
    /\ pc = "L264"
    /\ exchange_rate = 150
    /\ total = 1
    /\ TitleYenFig = <<"2">>
    /\ Len(SplitLines(detail)) >= 1

\* C8: once a report is composed, a failing webhook call or a missing URL
\* never fails the invocation: post_discord returns, the handler completes,
\* the POST is attempted at most once (never without a URL), and the payload
\* has a footer field only when the footer is non-empty.
C8_NotifierBestEffort ==
    (post_result # "none" \/ pc # "L264") =>
      /\ pc = "done"
      /\ exc = NoExc
      /\ Len(payload) <= 1
      /\ Count("requests.post", calls) = Len(payload)
      /\ (post_result = "no_url") <=> (payload = <<>>)
      /\ \A i \in 1..Len(payload) :
            /\ payload[i].embeds[1].title = title
            /\ payload[i].embeds[1].description = detail
            /\ ("footer" \in DOMAIN payload[i].embeds[1]) <=> (footer # <<>>)
            /\ ("footer" \in DOMAIN payload[i].embeds[1])
                  => payload[i].embeds[1].footer.text = footer

C8_Witness ==
    /\ pc = "done"
    /\ post_result = "raise"
    /\ footer = <<>>
    /\ Len(payload) = 1
    /\ "footer" \notin DOMAIN payload[1].embeds[1]

\* C9: get_exchange_rate makes one attempt and returns 0 instead of raising
\* on any failure of the query or of reading its first value.
C9_RateFetchNeverFails ==
    (rate_outcome # "none") =>
      /\ (rate_outcome # "ok") => exchange_rate = 0
      /\ (rate_outcome = "ok") => exchange_rate \in Rates
      /\ exc.line \notin 19..40
      /\ Count("pdr.get_data_yahoo", calls) = 1
      /\ (pc = "raised") => exc.line \in {188, 190, 205}

C9_Witness ==
    /\ pc = "L178"
    /\ rate_outcome = "query_raise"
    /\ exchange_rate = 0
    /\ exc = NoExc

\* C10: after the total-cost query fails no further external call is issued
\* in the invocation.
C10_AbortAtTotalFailure ==
    CostFailed(total_outcome) => calls = <<"ce.get_cost_and_usage">>

====
